---- MODULE Spec2Model ----
(***************************************************************************)
(* Model acquisition subsystem of the offline commit-message generator:    *)
(* lib/model-manager.js (ensureModelExists, downloadFile, the MODELS       *)
(* registry), lib/config.js (the persisted model selection), the default   *)
(* and the set-model actions of index.js, lib/git.js (getStagedDiff) and   *)
(* the reading of the model's response in lib/ai-local.js.                 *)
(*                                                                         *)
(* File sizes are counted in abstract units (one unit per stream chunk).   *)
(* A content-length header is kept as text and converted with parseInt,    *)
(* as the code does.                                                       *)
(***************************************************************************)
EXTENDS Integers, Sequences, FiniteSets, TLC

\* ------------------------------------------------------------------ bounds
MaxCalls == 2         \* invocations of ensureModelExists in one behaviour
MaxConcurrent == 2    \* invocations that can be in flight in one process
MaxSize == 2          \* largest file size, in chunks
MaxAttempts == 3      \* the attempt counter saturates here
MaxResponse == 5      \* tokens of a model response, white space around it aside
MaxRuns == 1          \* runs of the default CLI action in one behaviour
MaxRegenerate == 1    \* times the user chooses 'regenerate' in one run

Calls == 1..MaxConcurrent

\* ------------------------------------------------------------ registry
\* const MODELS = { 'qwen3': {...}, 'qwen2.5': {...} }
MODELS ==
    [k \in {"qwen3", "qwen2.5"} |->
        IF k = "qwen3"
        THEN [filename |-> "qwen3-4b.gguf",
              url |-> "https://huggingface.co/Qwen/Qwen3-4B-GGUF/resolve/main/Qwen3-4B-Q4_K_M.gguf",
              name |-> "Qwen 3 4B"]
        ELSE [filename |-> "qwen2.5-coder-1.5b.gguf",
              url |-> "https://huggingface.co/Qwen/Qwen2.5-Coder-1.5B-Instruct-GGUF/resolve/main/qwen2.5-coder-1.5b-instruct-q4_k_m.gguf",
              name |-> "Qwen2.5-Coder-1.5B"]]

\* Object.keys(MODELS), in insertion order
ModelKeys == <<"qwen3", "qwen2.5">>

\* MODELS[selectedModel] is undefined for any other key
IsRegistered(k) == k \in DOMAIN MODELS

\* getAvailableModels listing the keys from the last registered to the first
getAvailableModels_Reversed ==
    [i \in 1..Len(ModelKeys) |->
        [key |-> ModelKeys[Len(ModelKeys) + 1 - i],
         name |-> MODELS[ModelKeys[Len(ModelKeys) + 1 - i]].name,
         filename |-> MODELS[ModelKeys[Len(ModelKeys) + 1 - i]].filename]]

\* getAvailableModels()
getAvailableModels ==
    [i \in 1..Len(ModelKeys) |->
        [key |-> ModelKeys[i],
         name |-> MODELS[ModelKeys[i]].name,
         filename |-> MODELS[ModelKeys[i]].filename]]

\* path.join(MODELS_DIR, modelConfig.filename): a path is named by its filename
modelPath(k) == MODELS[k].filename

Paths == {MODELS[k].filename : k \in DOMAIN MODELS}

\* the modelKey argument: null (the default), a registered key, or another id
NoKey == ""
KeyInputs == {NoKey, "qwen3", "qwen2.5", "unknown"}
ModelInputs == {"qwen3", "qwen2.5", "unknown"}

\* --------------------------------------------------------------- files
\* fs.existsSync(p) is false
NoFile == -1

Exists(f) == f # NoFile

\* ------------------------------------------------- content-length header
\* headers['content-length']: undefined, or a string (a sequence of characters)
Undefined == [present |-> FALSE, text |-> <<>>]
Str(s) == [present |-> TRUE, text |-> s]

DigitChars == <<"0", "1", "2", "3", "4", "5", "6", "7", "8", "9">>

IsDigit(ch) == \E i \in 1..10 : DigitChars[i] = ch
DigitValue(ch) == (CHOOSE i \in 1..10 : DigitChars[i] = ch) - 1

\* the result of parseInt on text that does not start with a digit
NaN == -2

RECURSIVE ParseDigits(_, _, _)
ParseDigits(s, i, acc) ==
    IF i > Len(s) \/ ~IsDigit(s[i])
    THEN acc
    ELSE ParseDigits(s, i + 1, acc * 10 + DigitValue(s[i]))

\* parseInt(totalLength, 10): the leading decimal digits, NaN when there are none
parseInt(h) ==
    IF ~h.present \/ Len(h.text) = 0 \/ ~IsDigit(h.text[1])
    THEN NaN
    ELSE ParseDigits(h.text, 1, 0)

\* JavaScript truthiness of totalLength: undefined and '' are falsy
Truthy(h) == h.present /\ Len(h.text) > 0

\* a < b in JavaScript: false whenever b is NaN
LessThan(a, b) == b # NaN /\ a < b

\* the size test with the comparison off by one: a file one chunk short passes
IsShort_OffByOne(totalLength, size) ==
    Truthy(totalLength) /\ LessThan(size + 1, parseInt(totalLength))

\* totalLength && stats.size < parseInt(totalLength, 10)
IsShort(totalLength, size) == Truthy(totalLength) /\ LessThan(size, parseInt(totalLength))

\* the length headers a remote may send
Headers ==
    {Undefined, Str(<<"i", "n", "v", "a", "l", "i", "d">>)}
        \cup {Str(<<DigitChars[n + 1]>>) : n \in 1..MaxSize}


\* ---------------------------------------------------------- configuration
\* const DEFAULT_CONFIG = { selectedModel: 'qwen3' }
DefaultSelectedModel == "qwen3"

\* config.json: absent, JSON text holding selectedModel, or text that
\* JSON.parse rejects (an empty or cut-off file)
AbsentConfig == [exists |-> FALSE, parsable |-> FALSE, selectedModel |-> NoKey]
JsonConfig(m) == [exists |-> TRUE, parsable |-> TRUE, selectedModel |-> m]
UnparsableConfig == [exists |-> TRUE, parsable |-> FALSE, selectedModel |-> NoKey]

\* fs.writeFileSync(CONFIG_PATH, text) opens the file for writing, which
\* creates or empties it, and then writes the text: it succeeds, or throws
\* before the file is opened (no permission, read-only disk), or throws after
\* opening it (disk full, I/O error), and then the file is left cut off
WriteOutcomes == {"written", "refused", "truncated"}

\* the lines the program writes to the console
WarnLoad == "Failed to load config, using defaults:"
ErrorSave == "Failed to save config:"

\* ------------------------------------------------- text and JSON values
\* a text is a sequence of tokens: white space, the punctuation of JSON, the
\* word null, and three string literals written with their quotes
WS == " "
CommitMessageLiteral == "\"commit_message\""
TextLiteral == "\"feat: x\""
EmptyLiteral == "\"\""
StringLiterals == {CommitMessageLiteral, TextLiteral, EmptyLiteral}
Tokens == {WS, "{", "}", ":", "null"} \cup StringLiterals

\* the string a string literal denotes
LiteralContent(tok) ==
    CASE tok = CommitMessageLiteral -> "commit_message"
      [] tok = TextLiteral -> "feat: x"
      [] tok = EmptyLiteral -> ""

RECURSIVE TrimStart(_)
TrimStart(t) == IF t # <<>> /\ Head(t) = WS THEN TrimStart(Tail(t)) ELSE t

RECURSIVE TrimEnd(_)
TrimEnd(t) ==
    IF t # <<>> /\ t[Len(t)] = WS THEN TrimEnd(SubSeq(t, 1, Len(t) - 1)) ELSE t

\* String.prototype.trim()
Trim(t) == TrimEnd(TrimStart(t))

\* the values JSON.parse yields
NullValue == [type |-> "null"]
StringValue(s) == [type |-> "string", str |-> s]
EmptyObject == [type |-> "object", key |-> "", member |-> [type |-> "undefined"]]
ObjectValue(k, v) == [type |-> "object", key |-> k, member |-> v]
UndefinedValue == [type |-> "undefined"]

\* a text as a value of the program
TextValue(t) == [type |-> "text", tokens |-> t]

\* the position of the first token at or after i that is not white space
RECURSIVE SkipWs(_, _)
SkipWs(t, i) == IF i <= Len(t) /\ t[i] = WS THEN SkipWs(t, i + 1) ELSE i

SyntaxError == [ok |-> FALSE, val |-> UndefinedValue, next |-> 0]

\* the JSON value that starts at position i, and the position after it
RECURSIVE ParseValue(_, _)
ParseValue(t, i) ==
    LET j == SkipWs(t, i) IN
    IF j > Len(t) THEN SyntaxError
    ELSE IF t[j] = "null" THEN [ok |-> TRUE, val |-> NullValue, next |-> j + 1]
    ELSE IF t[j] \in StringLiterals
         THEN [ok |-> TRUE, val |-> StringValue(LiteralContent(t[j])), next |-> j + 1]
    ELSE IF t[j] # "{" THEN SyntaxError
    ELSE LET a == SkipWs(t, j + 1) IN
         IF a > Len(t) THEN SyntaxError
         ELSE IF t[a] = "}" THEN [ok |-> TRUE, val |-> EmptyObject, next |-> a + 1]
         ELSE IF t[a] \notin StringLiterals THEN SyntaxError
         ELSE LET b == SkipWs(t, a + 1) IN
              IF b > Len(t) \/ t[b] # ":" THEN SyntaxError
              ELSE LET v == ParseValue(t, b + 1) IN
                   IF ~v.ok THEN SyntaxError
                   ELSE LET e == SkipWs(t, v.next) IN
                        IF e > Len(t) \/ t[e] # "}" THEN SyntaxError
                        ELSE [ok |-> TRUE,
                              val |-> ObjectValue(LiteralContent(t[a]), v.val),
                              next |-> e + 1]

\* JSON.parse(text): throws SyntaxError unless the text is one JSON value
JSONparse(t) ==
    LET v == ParseValue(t, 1) IN
    IF v.ok /\ SkipWs(t, v.next) > Len(t) THEN v ELSE SyntaxError

\* parsed.commit_message: reading a property of null throws TypeError, of a
\* string or of an object without the property gives undefined
ReadsProperty(v) == v.type # "null"
commit_message(v) ==
    IF v.type = "object" /\ v.key = "commit_message" THEN v.member ELSE UndefinedValue

\* JavaScript truthiness of a parsed value
TruthyValue(v) ==
    CASE v.type = "string" -> v.str # ""
      [] v.type = "object" -> TRUE
      [] OTHER -> FALSE

\* console.warn("Failed to parse grammar-enforced JSON", e) is reached
ParseWarns(response) ==
    LET p == JSONparse(Trim(response)) IN ~p.ok \/ ~ReadsProperty(p.val)

\* generateCommitMessage without `|| cleanedResponse`: an empty or missing
\* commit_message is returned as it is
ParseResponse_NoFallback(response) ==
    LET cleanedResponse == Trim(response)
        p == JSONparse(cleanedResponse)
    IN  IF p.ok /\ ReadsProperty(p.val)
        THEN commit_message(p.val)
        ELSE TextValue(cleanedResponse)

\* generateCommitMessage, from the response of session.prompt on (lines
\* 186-194): parsed.commit_message || cleanedResponse inside the try, and
\* cleanedResponse after the catch
ParseResponse(response) ==
    LET cleanedResponse == Trim(response)
        p == JSONparse(cleanedResponse)
    IN  IF p.ok /\ ReadsProperty(p.val) /\ TruthyValue(commit_message(p.val))
        THEN commit_message(p.val)
        ELSE TextValue(cleanedResponse)

\* ------------------------------------------------------------------ state
VARIABLES
    call,            \* call[c]: the invocation of ensureModelExists in slot c
    prev,            \* outcome of the invocation before the latest one
    started,         \* number of invocations so far
    files,           \* files[p]: size of the file at path p, NoFile when absent
    dirExists,       \* fs.existsSync(MODELS_DIR)
    configFile,      \* contents of config.json
    DEFAULT_CONFIG,  \* the module-level DEFAULT_CONFIG object (its selectedModel)
    consoleOut,      \* lines config.js and the CLI actions have written to the
                     \* console since the latest operation began
    cli,             \* the run of a CLI action
    git,             \* the working directory as git sees it, and the latest
                     \* invocation of getStagedDiff
    ai               \* the latest invocation of generateCommitMessage

vars == <<call, prev, started, files, dirExists, configFile, DEFAULT_CONFIG,
         consoleOut, cli, git, ai>>

NoError == "none"
NoPath == ""

\* process.exit has not been called and the process has not ended
NoExit == -1

\* the text of no diff: getStagedDiff has not returned
NoDiff == {"<none>"}

\* the working directory before anything is staged, getStagedDiff not invoked
NoGit == [isRepo |-> FALSE, staged |-> {}, pc |-> "idle", commands |-> <<>>,
          result |-> NoDiff, error |-> NoError]

\* no CLI action is running. A run of the default action also keeps: where
\* the action is (stage), its variables modelPath, diff and currentMessage, the
\* state of its review loop, the latest answers of the user (choice, edited)
\* and what it has done so far: the messages given to commitChanges, the
\* menus shown, the invocations of getStagedDiff and the regenerations; runs
\* counts the runs of the default action so far
NoCli == [pc |-> "none", command |-> "", model |-> NoKey, insecure |-> FALSE,
          exitCode |-> NoExit, stage |-> "none", modelPath |-> NoPath,
          diff |-> NoDiff, currentMessage |-> UndefinedValue, loop |-> "none",
          choice |-> "none", edited |-> <<>>, commits |-> <<>>, prompts |-> 0,
          reads |-> 0, regenerations |-> 0, runs |-> 0]

\* generateCommitMessage has not been invoked
NoAi == [pc |-> "idle", modelPath |-> NoPath, diff |-> NoDiff, response |-> <<>>,
         result |-> UndefinedValue, warned |-> FALSE]

IdleCall ==
    [pc |-> "idle", modelKey |-> NoKey, skipSSLVerification |-> FALSE,
     selectedModel |-> NoKey, attempt |-> 0, totalLength |-> Undefined,
     insecureAgent |-> FALSE, io |-> {}, written |-> 0, stale |-> FALSE,
     result |-> NoPath, error |-> NoError, exitFile |-> NoFile]

\* a call that has been started and whose promise is still pending on work
Running(c) == call[c].pc \in {"EnsureDir", "Resolving", "Checking", "Open", "Request", "Stream"}

\* the promise of ensureModelExists has settled
Settled(c) == call[c].pc \in {"Ready", "Failed"}

\* what is remembered of an invocation once the next one has started
Outcome(r) ==
    [pc |-> r.pc, selectedModel |-> r.selectedModel, result |-> r.result,
     error |-> r.error, exitFile |-> r.exitFile]

Init ==
    /\ call = [c \in Calls |-> IdleCall]
    /\ prev = Outcome(IdleCall)
    /\ started = 0
    /\ files = [p \in Paths |-> NoFile]
    /\ dirExists = FALSE
    /\ configFile = AbsentConfig
    /\ DEFAULT_CONFIG = DefaultSelectedModel
    /\ consoleOut = <<>>
    /\ cli = NoCli
    /\ git = NoGit
    /\ ai = NoAi

\* loadConfig(): the object returned is DEFAULT_CONFIG itself when there is no
\* file or JSON.parse throws; otherwise it is a new object
LoadsDefaultObject == ~(configFile.exists /\ configFile.parsable)

\* loadConfig(): console.warn in the catch block
LoadWarning == IF configFile.exists /\ ~configFile.parsable THEN <<WarnLoad>> ELSE <<>>

\* lines are added to what a CLI run has written; outside a run consoleOut
\* holds the lines of the latest operation
Logged(lines) == IF cli.pc = "running" THEN consoleOut \o lines ELSE lines

\* getSelectedModel(): loadConfig().selectedModel
getSelectedModel ==
    IF configFile.exists /\ configFile.parsable /\ configFile.selectedModel # NoKey
    THEN configFile.selectedModel
    ELSE DEFAULT_CONFIG

\* saveConfig that writes nothing
saveConfig_WritesNothing(selectedModel, write) == configFile

\* saveConfig(config): the file after fs.writeFileSync ended with outcome write
saveConfig(selectedModel, write) ==
    CASE write = "written" -> JsonConfig(selectedModel)
      [] write = "refused" -> configFile
      [] write = "truncated" -> UnparsableConfig

\* saveConfig with an empty catch block: a failed write is not reported
SaveError_Silent(write) == <<>>

\* saveConfig(config): console.error in the catch block
SaveError(write) == IF write = "written" THEN <<>> ELSE <<ErrorSave>>

\* setSelectedModel without the assignment: the configuration is saved as loaded
setSelectedModel_SavesLoaded(model, write) ==
    /\ \A c \in Calls : ~Running(c)
    /\ cli.pc # "running"
    /\ DEFAULT_CONFIG' = DEFAULT_CONFIG
    /\ configFile' = saveConfig(getSelectedModel, write)
    /\ consoleOut' = LoadWarning \o SaveError(write)
    /\ UNCHANGED <<call, prev, started, files, dirExists, cli, git, ai>>

\* setSelectedModel(model): config = loadConfig(); config.selectedModel = model;
\* saveConfig(config)
setSelectedModel(model, write) ==
    /\ \A c \in Calls : ~Running(c)
    /\ cli.pc # "running"
    /\ DEFAULT_CONFIG' = IF LoadsDefaultObject THEN model ELSE DEFAULT_CONFIG
    /\ configFile' = saveConfig(model, write)
    /\ consoleOut' = LoadWarning \o SaveError(write)
    /\ UNCHANGED <<call, prev, started, files, dirExists, cli, git, ai>>

\* -------------------------------------------------------- ensureModelExists
\* ensureModelExists(modelKey, skipSSLVerification) is invoked; invocations
\* follow one another, each starting when no earlier one is still at work
Start(c, modelKey, skip) ==
    /\ started < MaxCalls
    /\ \A d \in Calls : ~Running(d)
    /\ \A d \in Calls : d < c => Running(d)
    /\ started' = started + 1
    /\ prev' = IF call[c].pc = "idle" THEN prev ELSE Outcome(call[c])
    /\ call' = [call EXCEPT ![c] = [IdleCall EXCEPT !.pc = "EnsureDir",
                                                   !.modelKey = modelKey,
                                                   !.skipSSLVerification = skip]]
    /\ UNCHANGED <<files, dirExists, configFile, DEFAULT_CONFIG, consoleOut, cli, git, ai>>

\* the directory created without looking whether it exists
EnsureDir_AlwaysMkdir(c) ==
    /\ call[c].pc = "EnsureDir"
    /\ dirExists' = TRUE
    /\ call' = [call EXCEPT ![c].pc = "Resolving",
                            ![c].io = @ \cup {"existsSync(dir)", "mkdirSync"}]
    /\ UNCHANGED <<prev, started, files, configFile, DEFAULT_CONFIG, consoleOut, cli, git, ai>>

\* if (!fs.existsSync(MODELS_DIR)) fs.mkdirSync(MODELS_DIR, { recursive: true })
EnsureDir(c) ==
    /\ call[c].pc = "EnsureDir"
    /\ dirExists' = TRUE
    /\ call' = [call EXCEPT ![c].pc = "Resolving",
                            ![c].io = @ \cup {"existsSync(dir)"}
                                        \cup (IF dirExists THEN {} ELSE {"mkdirSync"})]
    /\ UNCHANGED <<prev, started, files, configFile, DEFAULT_CONFIG, consoleOut, cli, git, ai>>

\* the promise rejects: the file at the destination is what the caller finds
Reject(r, err) ==
    [r EXCEPT !.pc = "Failed", !.error = err, !.written = 0, !.stale = FALSE,
              !.exitFile = IF IsRegistered(r.selectedModel)
                           THEN files'[modelPath(r.selectedModel)] ELSE NoFile]

\* Return with the path of the default model, whichever model was resolved
Return_DefaultPath(r) ==
    [r EXCEPT !.pc = "Ready", !.result = modelPath(DefaultSelectedModel),
              !.written = 0, !.stale = FALSE,
              !.exitFile = files'[modelPath(r.selectedModel)]]

\* the promise resolves with modelPath
Return(r) ==
    [r EXCEPT !.pc = "Ready", !.result = modelPath(r.selectedModel),
              !.written = 0, !.stale = FALSE,
              !.exitFile = files'[modelPath(r.selectedModel)]]

\* Resolve without the existence check: a registered model is downloaded at once
Resolve_SkipsCheck(c) ==
    /\ call[c].pc = "Resolving"
    /\ LET sel == IF call[c].modelKey # NoKey THEN call[c].modelKey ELSE getSelectedModel
           r == [call[c] EXCEPT !.selectedModel = sel]
       IN  /\ UNCHANGED <<prev, started, files, dirExists, configFile, DEFAULT_CONFIG, cli, git, ai>>
           /\ consoleOut' = IF call[c].modelKey # NoKey THEN consoleOut
                                                         ELSE Logged(LoadWarning)
           /\ call' = [call EXCEPT ![c] =
                        IF IsRegistered(sel)
                        THEN [r EXCEPT !.pc = "Open", !.attempt = 1,
                                       !.insecureAgent = r.skipSSLVerification]
                        ELSE Reject(r, "Unknown model")]

\* const selectedModel = modelKey || getSelectedModel(); MODELS[selectedModel]
Resolve(c) ==
    /\ call[c].pc = "Resolving"
    /\ LET sel == IF call[c].modelKey # NoKey THEN call[c].modelKey ELSE getSelectedModel
           r == [call[c] EXCEPT !.selectedModel = sel]
       IN  /\ UNCHANGED <<prev, started, files, dirExists, configFile, DEFAULT_CONFIG, cli, git, ai>>
           /\ consoleOut' = IF call[c].modelKey # NoKey THEN consoleOut
                                                         ELSE Logged(LoadWarning)
           /\ call' = [call EXCEPT ![c] =
                        IF IsRegistered(sel)
                        THEN [r EXCEPT !.pc = "Checking"]
                        ELSE Reject(r, "Unknown model")]

\* the local artifact state ensureModelExists derives from the filesystem:
\* fs.existsSync(modelPath) alone decides, the size is not read
inspect(f) == IF Exists(f) THEN "Complete" ELSE "Absent"

\* Check without the early return: the download starts whether or not the file exists
Check_NoEarlyReturn(c) ==
    /\ call[c].pc = "Checking"
    /\ UNCHANGED <<prev, started, files, dirExists, configFile, DEFAULT_CONFIG, consoleOut, cli, git, ai>>
    /\ call' = [call EXCEPT ![c].pc = "Open", ![c].attempt = 1,
                            ![c].io = @ \cup {"existsSync(file)"},
                            ![c].insecureAgent = call[c].skipSSLVerification]

\* if (fs.existsSync(modelPath)) return modelPath; else downloadFile(...)
Check(c) ==
    /\ call[c].pc = "Checking"
    /\ LET p == modelPath(call[c].selectedModel)
           r == [call[c] EXCEPT !.io = @ \cup {"existsSync(file)"}]
       IN  /\ UNCHANGED <<prev, started, files, dirExists, configFile, DEFAULT_CONFIG, consoleOut, cli, git, ai>>
           /\ call' = [call EXCEPT ![c] =
                        IF inspect(files[p]) = "Complete"
                        THEN Return(r)
                        ELSE [r EXCEPT !.pc = "Open", !.attempt = 1,
                                       !.insecureAgent = r.skipSSLVerification]]


\* ------------------------------------------------------------ downloadFile
Min(a, b) == IF a < b THEN a ELSE b

Max(a, b) == IF a > b THEN a ELSE b

\* the promise of ensureModelExists can no longer settle
Hang(r, err) ==
    [r EXCEPT !.pc = "Hung", !.error = err, !.written = 0, !.stale = FALSE]

\* a promise that rejects inside downloadFile: the outermost invocation is
\* awaited by ensureModelExists, whose catch block rethrows the error; an
\* invocation made by the retry is awaited inside the async 'finish' listener,
\* where nothing handles the rejection and resolve() is never reached
Fail(r, err) ==
    IF r.attempt = 1 THEN Reject(r, err) ELSE Hang(r, err)

\* const writer = fs.createWriteStream(outputPath): creates the file, or
\* truncates the one that is there; the writer starts at offset 0
OpenWriter(c) ==
    /\ call[c].pc = "Open"
    /\ files' = [files EXCEPT ![modelPath(call[c].selectedModel)] = 0]
    /\ call' = [call EXCEPT ![c].pc = "Request",
                            ![c].written = 0,
                            ![c].stale = FALSE,
                            ![c].io = @ \cup {"createWriteStream"}]
    /\ UNCHANGED <<prev, started, dirExists, configFile, DEFAULT_CONFIG, consoleOut, cli, git, ai>>

\* await axios({ url, method: 'GET', responseType: 'stream', httpsAgent })
\* resolves; const totalLength = headers['content-length']; data.pipe(writer)
Respond(c, header) ==
    /\ call[c].pc = "Request"
    /\ call' = [call EXCEPT ![c].pc = "Stream",
                            ![c].totalLength = header,
                            ![c].io = @ \cup {"axios"}]
    /\ UNCHANGED <<prev, started, files, dirExists, configFile, DEFAULT_CONFIG, consoleOut, cli, git, ai>>

\* await axios(...) rejects: connection error, timeout or non-success status
RequestFails(c) ==
    /\ call[c].pc = "Request"
    /\ UNCHANGED <<prev, started, files, dirExists, configFile, DEFAULT_CONFIG, consoleOut, cli, git, ai>>
    /\ call' = [call EXCEPT ![c] =
                 Fail([call[c] EXCEPT !.io = @ \cup {"axios"}], "Network error")]

\* data.pipe(writer): one chunk of the response is written at the writer's
\* offset; a writer whose file has been unlinked since it was opened writes to
\* a file that is no longer at the path
Chunk(c) ==
    /\ call[c].pc = "Stream"
    /\ call[c].written < MaxSize
    /\ call' = [call EXCEPT ![c].written = @ + 1]
    /\ LET p == modelPath(call[c].selectedModel)
       IN  files' = IF call[c].stale
                    THEN files
                    ELSE [files EXCEPT ![p] = Max(@, call[c].written + 1)]
    /\ UNCHANGED <<prev, started, dirExists, configFile, DEFAULT_CONFIG, consoleOut, cli, git, ai>>

\* writer.on('error', reject)
WriterError(c) ==
    /\ call[c].pc = "Stream"
    /\ UNCHANGED <<prev, started, files, dirExists, configFile, DEFAULT_CONFIG, consoleOut, cli, git, ai>>
    /\ call' = [call EXCEPT ![c] = Fail(call[c], "Write error")]

\* the response stream emits 'error': no listener is attached to data and
\* pipe() does not end the writer, so neither 'finish' nor 'error' follows
StreamError(c) ==
    /\ call[c].pc = "Stream"
    /\ call' = [call EXCEPT ![c] = Hang(call[c], "Stream error")]
    /\ UNCHANGED <<prev, started, files, dirExists, configFile, DEFAULT_CONFIG, consoleOut, cli, git, ai>>

\* writer.on('finish'): statSync, then unlinkSync and the recursive
\* downloadFile(url, outputPath), or resolve()
Finish(c) ==
    /\ call[c].pc = "Stream"
    /\ LET p == modelPath(call[c].selectedModel)
           r == [call[c] EXCEPT !.io = @ \cup {"statSync"}]
       IN  IF ~Exists(files[p])
           THEN \* fs.statSync throws ENOENT inside the async listener
                /\ files' = files
                /\ call' = [call EXCEPT ![c] = Hang(r, "ENOENT")]
           ELSE IF IsShort(call[c].totalLength, files[p])
           THEN /\ files' = [files EXCEPT ![p] = NoFile]
                /\ call' = [d \in Calls |->
                             IF d = c
                             THEN [r EXCEPT !.pc = "Open",
                                            !.io = @ \cup {"unlinkSync"},
                                            !.attempt = Min(@ + 1, MaxAttempts),
                                            !.totalLength = Undefined,
                                            !.written = 0,
                                            !.insecureAgent = FALSE]
                             ELSE IF /\ call[d].pc \in {"Request", "Stream"}
                                     /\ modelPath(call[d].selectedModel) = p
                                  THEN [call[d] EXCEPT !.stale = TRUE]
                                  ELSE call[d]]
           ELSE /\ files' = files
                /\ call' = [call EXCEPT ![c] = Return(r)]
    /\ UNCHANGED <<prev, started, dirExists, configFile, DEFAULT_CONFIG, consoleOut, cli, git, ai>>

\* ------------------------------------------------------------ specification
Next ==
    \/ \E c \in Calls, k \in KeyInputs, skip \in BOOLEAN : Start(c, k, skip)
    \/ \E c \in Calls : EnsureDir(c)
    \/ \E c \in Calls : Resolve(c)
    \/ \E c \in Calls : Check(c)
    \/ \E c \in Calls : OpenWriter(c)
    \/ \E c \in Calls, h \in Headers : Respond(c, h)
    \/ \E c \in Calls : RequestFails(c)
    \/ \E c \in Calls : Chunk(c)
    \/ \E c \in Calls : WriterError(c)
    \/ \E c \in Calls : StreamError(c)
    \/ \E c \in Calls : Finish(c)
    \/ \E m \in ModelInputs, w \in WriteOutcomes : setSelectedModel(m, w)

Spec == Init /\ [][Next]_vars

TypeOK ==
    /\ \A c \in Calls : call[c].pc \in {"idle", "EnsureDir", "Resolving", "Checking", "Open",
                                       "Request", "Stream", "Ready", "Failed", "Hung"}
    /\ \A p \in Paths : files[p] \in {NoFile} \cup 0..MaxSize
    /\ dirExists \in BOOLEAN


\* every step of an invocation that is in flight is eventually taken: the
\* event loop runs each pending callback and the remote end answers
Step(c) ==
    \/ EnsureDir(c) \/ Resolve(c) \/ Check(c) \/ OpenWriter(c)
    \/ (\E h \in Headers : Respond(c, h)) \/ RequestFails(c)
    \/ Chunk(c) \/ WriterError(c) \/ StreamError(c) \/ Finish(c)

FairSpec == Spec /\ \A c \in Calls : WF_vars(Step(c))

\* -------------------------------------------------- local artifact state
\* the minimum plausible artifact size (1 MiB), in chunks
MinPlausibleSize == 1

\* inspect(path) = Complete(size)
Complete(f) == Exists(f) /\ f >= MinPlausibleSize

\* the file at the destination of invocation c
Destination(c) == files[modelPath(call[c].selectedModel)]

DownloadErrors == {"Network error", "Write error"}

\* ------------------------------------------------------------------ claims

\* C1: a path returned by ensureModelExists refers, at the moment of return,
\* to a file that is Complete.
C1_ReturnedPathIsComplete ==
    \A c \in Calls : call[c].pc = "Ready" => Complete(call[c].exitFile)

\* C2: when an invocation has exited, by success or by failure, the
\* destination path does not exist or holds a Complete artifact.
C2_NoPartialFileAfterExit ==
    \A c \in Calls :
        Settled(c) /\ IsRegistered(call[c].selectedModel)
            => (~Exists(call[c].exitFile) \/ Complete(call[c].exitFile))

\* C3: an invocation that fails with 'Unknown model' has performed no
\* filesystem and no network activity.
C3_UnknownModelNoIO ==
    \A c \in Calls :
        call[c].pc = "Failed" /\ call[c].error = "Unknown model" => call[c].io = {}

\* C4: the file that failed the completeness check is gone before the retry
\* opens its writer, and once a fetch has ended in failure after a failed
\* completeness check the destination path does not exist.
C4_RemovedAfterIntegrityFailure ==
    \A c \in Calls :
        /\ call[c].pc = "Open" /\ call[c].attempt > 1 => ~Exists(Destination(c))
        /\ call[c].pc \in {"Failed", "Hung"} /\ call[c].attempt > 1
               => ~Exists(Destination(c))

\* C5: one fetch makes at most two transfer attempts, the original and one retry.
C5_AtMostTwoAttempts ==
    \A c \in Calls : call[c].attempt <= 2

\* C6: when the first attempt and its retry have both failed the completeness
\* check, the invocation has failed with an integrity error and the
\* destination path does not exist.
C6_TwoShortAttemptsFail ==
    \A c \in Calls :
        call[c].attempt >= 3
            => /\ call[c].pc = "Failed"
               /\ call[c].error = "Integrity error"
               /\ ~Exists(Destination(c))

\* C7: every invocation eventually reaches Ready or Failed.
C7_EventuallySettles ==
    \A c \in Calls : (call[c].pc = "EnsureDir") ~> (call[c].pc \in {"Ready", "Failed"})

\* C8: when the request fails outright or the write stream emits an error,
\* the invocation rejects with that error and makes no further attempt.
C8_DownloadErrorRejects ==
    \A c \in Calls :
        call[c].error \in DownloadErrors
            => call[c].pc = "Failed" /\ ~Running(c)

\* C9: when the retried attempt fails with a network or write error, the
\* failure reaches the caller as an error.
C9_RetryFailureSurfaced ==
    \A c \in Calls :
        call[c].attempt > 1 /\ call[c].error \in DownloadErrors
            => call[c].pc = "Failed"

\* C10: after an invocation has failed with a download error, the next
\* invocation for the same artifact returns the path only after downloading
\* again.
C10_RedownloadAfterFailure ==
    \A c \in Calls :
        /\ prev.pc = "Failed" /\ prev.error \in DownloadErrors
        /\ call[c].pc = "Ready" /\ call[c].selectedModel = prev.selectedModel
        => "axios" \in call[c].io

\* C11: a file below the minimum plausible size is never returned as it was
\* found: an invocation that returns without opening a writer found a file of
\* at least that size.
C11_TooSmallFileRefetched ==
    \A c \in Calls :
        call[c].pc = "Ready" /\ "createWriteStream" \notin call[c].io
            => call[c].exitFile >= MinPlausibleSize

\* C12: when a Complete artifact is at the destination, the check returns the
\* path after reading the file's size, without a fetch and without a request.
C12_CompleteReturnedAfterSizeCheck ==
    [][\A c \in Calls :
          call[c].pc = "Checking" /\ Complete(Destination(c))
              => /\ call'[c].pc = "Ready"
                 /\ call'[c].result = modelPath(call[c].selectedModel)
                 /\ "statSync" \in call'[c].io
                 /\ "axios" \notin call'[c].io
                 /\ "createWriteStream" \notin call'[c].io]_vars

\* C13: an invocation that follows a successful one for the same artifact,
\* with the file as that one left it, returns the same path, issues no
\* request and leaves the file unchanged.
C13_Idempotent ==
    [][\A c \in Calls :
          /\ call[c].pc = "Checking"
          /\ prev.pc = "Ready" /\ prev.selectedModel = call[c].selectedModel
          /\ Destination(c) = prev.exitFile
          => /\ call'[c].pc = "Ready"
             /\ call'[c].result = prev.result
             /\ call'[c].io \cap {"axios", "createWriteStream", "unlinkSync"} = {}
             /\ files' = files]_vars

\* the second of two successive invocations has returned the same path
C13_Witness ==
    \E c \in Calls :
        /\ prev.pc = "Ready" /\ Complete(prev.exitFile)
        /\ call[c].pc = "Ready" /\ call[c].selectedModel = prev.selectedModel
        /\ call[c].result = prev.result
        /\ "axios" \notin call[c].io

\* C14: a fetch that succeeded under a known expected size left a file of at
\* least that size, whether the first attempt or a retry succeeded.
C14_FetchedSizeAtLeastExpected ==
    \A c \in Calls :
        /\ call[c].pc = "Ready" /\ "axios" \in call[c].io
        /\ parseInt(call[c].totalLength) # NaN
        => call[c].exitFile >= parseInt(call[c].totalLength)

\* a retry succeeded under a known expected size
C14_Witness ==
    \E c \in Calls :
        /\ call[c].pc = "Ready" /\ call[c].attempt = 2
        /\ parseInt(call[c].totalLength) = MaxSize
        /\ call[c].exitFile = MaxSize

\* C15: a fetch whose response carried no size header does not report success
\* for a zero-byte file.
C15_NoHeaderEmptyFileRejected ==
    \A c \in Calls :
        /\ call[c].pc = "Ready" /\ "axios" \in call[c].io
        /\ ~call[c].totalLength.present
        => call[c].exitFile > 0

\* C16: with a size header that is present but not numeric the fetch succeeds
\* exactly when the file is not empty.
C16_InvalidHeaderNonZeroCheck ==
    \A c \in Calls :
        /\ call[c].pc = "Ready" /\ "axios" \in call[c].io
        /\ call[c].totalLength.present /\ parseInt(call[c].totalLength) = NaN
        => call[c].exitFile > 0

\* C17: every transfer attempt of an invocation uses the TLS setting the
\* invocation was given.
C17_TLSSettingOnEveryAttempt ==
    \A c \in Calls :
        call[c].pc \in {"Open", "Request", "Stream"}
            => call[c].insecureAgent = call[c].skipSSLVerification

\* C18: the state derived for a path is Absent iff no file exists, Incomplete
\* iff a file exists with size below the minimum plausible size, and Complete
\* otherwise.
C18_InspectorClassification ==
    \A p \in Paths :
        /\ inspect(files[p]) = "Absent" <=> ~Exists(files[p])
        /\ inspect(files[p]) = "Incomplete"
               <=> Exists(files[p]) /\ files[p] < MinPlausibleSize
        /\ inspect(files[p]) = "Complete"
               <=> Exists(files[p]) /\ files[p] >= MinPlausibleSize

\* C19: a file of exactly the minimum plausible size (1 MiB) is not returned
\* as it was found: it is removed and downloaded again.
C19_ExactlyThresholdRefetched ==
    \A c \in Calls :
        call[c].pc = "Ready" /\ "createWriteStream" \notin call[c].io
            => call[c].exitFile # MinPlausibleSize

\* ------------------------------------------------- concurrent invocations
\* ensureModelExists is invoked while earlier invocations of the same process
\* may still be in flight; the invocation takes the lowest free slot
StartConcurrent(c, modelKey, skip) ==
    /\ started < MaxCalls
    /\ ~Running(c)
    /\ \A d \in Calls : d < c => Running(d)
    /\ started' = started + 1
    /\ prev' = IF call[c].pc = "idle" THEN prev ELSE Outcome(call[c])
    /\ call' = [call EXCEPT ![c] = [IdleCall EXCEPT !.pc = "EnsureDir",
                                                   !.modelKey = modelKey,
                                                   !.skipSSLVerification = skip]]
    /\ UNCHANGED <<files, dirExists, configFile, DEFAULT_CONFIG, consoleOut, cli, git, ai>>

NextConcurrent ==
    \/ \E c \in Calls, k \in KeyInputs, skip \in BOOLEAN : StartConcurrent(c, k, skip)
    \/ \E c \in Calls : EnsureDir(c)
    \/ \E c \in Calls : Resolve(c)
    \/ \E c \in Calls : Check(c)
    \/ \E c \in Calls : OpenWriter(c)
    \/ \E c \in Calls, h \in Headers : Respond(c, h)
    \/ \E c \in Calls : RequestFails(c)
    \/ \E c \in Calls : Chunk(c)
    \/ \E c \in Calls : WriterError(c)
    \/ \E c \in Calls : StreamError(c)
    \/ \E c \in Calls : Finish(c)

SpecConcurrent == Init /\ [][NextConcurrent]_vars

\* C20: with two invocations for the same artifact in flight, none returns the
\* destination path while the other one's writer is still open on that path.
C20_NoReturnWhileBeingWritten ==
    [][\A c, d \in Calls :
          /\ c # d
          /\ call[c].pc # "Ready" /\ call'[c].pc = "Ready"
          /\ call[d].selectedModel = call'[c].selectedModel
          => call[d].pc \notin {"Request", "Stream"}]_vars

\* ------------------------------------------- the model files between calls
\* the user deletes the models folder while no invocation is at work
DeleteModelsFolder ==
    /\ \A c \in Calls : ~Running(c)
    /\ dirExists
    /\ dirExists' = FALSE
    /\ files' = [p \in Paths |-> NoFile]
    /\ UNCHANGED <<call, prev, started, configFile, DEFAULT_CONFIG, consoleOut, cli, git, ai>>

\* the file of a model is replaced, while no invocation is at work, by a file
\* of another size
ReplaceFile(p, size) ==
    /\ \A c \in Calls : ~Running(c)
    /\ Exists(files[p])
    /\ size # files[p]
    /\ files' = [files EXCEPT ![p] = size]
    /\ UNCHANGED <<call, prev, started, dirExists, configFile, DEFAULT_CONFIG,
                   consoleOut, cli, git, ai>>

NextEnv ==
    \/ Next
    \/ DeleteModelsFolder
    \/ \E p \in Paths, size \in 0..MaxSize : ReplaceFile(p, size)

SpecEnv == Init /\ [][NextEnv]_vars

\* C21: the state of the artifact is derived anew on every invocation: when
\* the earlier invocation returned a Complete artifact and the file has since
\* been deleted or replaced by one below the minimum plausible size, the
\* check of the next invocation for that artifact does not return the path.
C21_StateRederivedEachCall ==
    [][\A c \in Calls :
          /\ call[c].pc = "Checking"
          /\ prev.pc = "Ready" /\ Complete(prev.exitFile)
          /\ prev.selectedModel = call[c].selectedModel
          /\ ~Complete(Destination(c))
          => call'[c].pc # "Ready"]_vars

\* ------------------------------------------- the states of one acquisition
\* the state of the acquisition an invocation is in: a promise that can no
\* longer settle stays in Fetching
Phase(pc) ==
    CASE pc = "idle" -> "Idle"
      [] pc \in {"EnsureDir", "Resolving"} -> "Resolving"
      [] pc = "Checking" -> "Checking"
      [] pc \in {"Open", "Request", "Stream", "Hung"} -> "Fetching"
      [] pc = "Ready" -> "Ready"
      [] pc = "Failed" -> "Failed"

C23_RegistryFixed ==
    /\ getAvailableModels =
          <<[key |-> "qwen3", name |-> "Qwen 3 4B", filename |-> "qwen3-4b.gguf"],
            [key |-> "qwen2.5", name |-> "Qwen2.5-Coder-1.5B",
             filename |-> "qwen2.5-coder-1.5b.gguf"]>>
    /\ \A c \in Calls :
          call[c].pc = "Ready"
              => \E i \in 1..Len(getAvailableModels) :
                    /\ getAvailableModels[i].key = call[c].selectedModel
                    /\ getAvailableModels[i].filename = call[c].result

\* the selection has been changed and two invocations have been made, one of
\* which downloaded a model
C23_Witness ==
    /\ started >= 2
    /\ configFile = JsonConfig("qwen2.5")
    /\ \E c \in Calls : call[c].pc = "Ready" /\ "axios" \in call[c].io

\* ------------------------------------------------- which model is resolved
\* C24: an invocation resolves the model its modelKey argument names, whatever
\* the configuration file holds, and the model the configuration file selects
\* only when it is given no modelKey; the path it returns is the filename of
\* the descriptor of the model it resolved.
C24_ModelKeyOverridesSelection ==
    [][\A c \in Calls :
          /\ call[c].pc = "Resolving" /\ call[c].modelKey # NoKey
                 => call'[c].selectedModel = call[c].modelKey
          /\ call[c].pc = "Resolving" /\ call[c].modelKey = NoKey
                 /\ configFile.exists /\ configFile.parsable
                 => call'[c].selectedModel = configFile.selectedModel
          /\ call[c].pc # "Ready" /\ call'[c].pc = "Ready"
                 => /\ call'[c].selectedModel = call[c].selectedModel
                    /\ call'[c].result = MODELS[call[c].selectedModel].filename]_vars

\* an invocation given 'qwen2.5' has returned that model's path while the
\* configuration file selects 'qwen3'
C24_Witness ==
    \E c \in Calls :
        /\ call[c].pc = "Ready" /\ call[c].modelKey = "qwen2.5"
        /\ configFile = JsonConfig("qwen3")
        /\ call[c].result = "qwen2.5-coder-1.5b.gguf"

\* ------------------------------------------------------- the configuration
\* C25: in every state, whatever setSelectedModel calls came before, the
\* selected model read back is the built-in 'qwen3' whenever the
\* configuration file is absent or cannot be parsed.
C25_DefaultWhenAbsentOrUnparsable ==
    ~(configFile.exists /\ configFile.parsable) => getSelectedModel = "qwen3"

\* C26: after setSelectedModel(id) whose write succeeds, whatever the
\* configuration was before, the file holds selectedModel = id and
\* getSelectedModel returns id.
C26_ConfigRoundTrip ==
    [][\A m \in ModelInputs :
          setSelectedModel(m, "written")
              => /\ configFile'.exists /\ configFile'.parsable
                 /\ configFile'.selectedModel = m
                 /\ getSelectedModel' = m]_vars

\* a selection has been written over a file that could not be parsed and
\* reads back
C26_Witness ==
    /\ consoleOut = <<WarnLoad>>
    /\ configFile = JsonConfig("qwen2.5")
    /\ getSelectedModel = "qwen2.5"

\* C27: a write of the configuration file that fails is reported on the error
\* log, and the file is left as it was before the call.
C27_WriteFailureLeavesFile ==
    [][\A m \in ModelInputs, w \in WriteOutcomes \ {"written"} :
          setSelectedModel(m, w)
              => /\ consoleOut' # <<>>
                 /\ consoleOut'[Len(consoleOut')] = ErrorSave
                 /\ configFile' = configFile]_vars

\* C27, amended: a write of the configuration file that fails is reported on
\* the error log; the file is left as it was, or cut off so that it cannot be
\* parsed, and never holds a selection it did not hold before.
C27_WriteFailureReported ==
    [][\A m \in ModelInputs, w \in WriteOutcomes \ {"written"} :
          setSelectedModel(m, w)
              => /\ consoleOut' # <<>>
                 /\ consoleOut'[Len(consoleOut')] = ErrorSave
                 /\ configFile' \in {configFile, UnparsableConfig}]_vars

\* a write over a parsable file has failed and left the file cut off
C27_Witness ==
    /\ consoleOut = <<ErrorSave>>
    /\ configFile = UnparsableConfig

\* ------------------------------------------------ the set-model CLI action
\* the lines the set-model action writes with console.log
InvalidModelLine == "Invalid model. Available models:"
ModelSetLine == "Model set to:"
CheckingLine == "Checking if model is downloaded..."
ReadyLine == "Model is ready to use!"
FailedLine == "Failed to download model:"

\* availableModels.forEach(m => console.log(`  - ${m.key}: ${m.name}`))
ListingLines == [i \in 1..Len(getAvailableModels) |-> getAvailableModels[i].key]

\* set-model accepting whatever id it is given
IsListed_AcceptsAll(model) == TRUE

\* modelKeys.includes(model)
IsListed(model) == \E i \in 1..Len(getAvailableModels) : getAvailableModels[i].key = model

\* a line is among those written
Wrote(line) == \E i \in 1..Len(consoleOut) : consoleOut[i] = line

\* set-model with the selection saved before the id is validated
SetModel_SavesFirst(model, insecure, write) ==
    /\ cli.pc # "running"
    /\ \A c \in Calls : ~Running(c)
    /\ started < MaxCalls
    /\ git' = git
    /\ ai' = ai
    /\ DEFAULT_CONFIG' = IF LoadsDefaultObject THEN model ELSE DefaultSelectedModel
    /\ configFile' = saveConfig(model, write)
    /\ IF ~IsListed(model)
       THEN /\ consoleOut' = LoadWarning \o SaveError(write)
                                \o <<InvalidModelLine>> \o ListingLines
            /\ cli' = [NoCli EXCEPT !.pc = "exited", !.command = "set-model", !.runs = cli.runs,
                                    !.model = model, !.insecure = insecure,
                                    !.exitCode = 1]
            /\ UNCHANGED <<call, prev, started, files, dirExists>>
       ELSE /\ consoleOut' = LoadWarning \o SaveError(write)
                                \o <<ModelSetLine, CheckingLine>>
            /\ cli' = [NoCli EXCEPT !.pc = "running", !.command = "set-model", !.runs = cli.runs,
                                    !.model = model, !.insecure = insecure]
            /\ started' = started + 1
            /\ prev' = IF call[1].pc = "idle" THEN prev ELSE Outcome(call[1])
            /\ call' = [call EXCEPT ![1] = [IdleCall EXCEPT !.pc = "EnsureDir",
                                                           !.modelKey = model,
                                                           !.skipSSLVerification = insecure]]
            /\ UNCHANGED <<files, dirExists>>

\* `ai-commit set-model <model> [--insecure]` is run in a new process, whose
\* DEFAULT_CONFIG is as the module defines it: an id that is not listed is
\* refused with process.exit(1); otherwise setSelectedModel(model) and then
\* ensureModelExists(model, options.insecure), which the action awaits
SetModel(model, insecure, write) ==
    /\ cli.pc # "running"
    /\ \A c \in Calls : ~Running(c)
    /\ started < MaxCalls
    /\ git' = git
    /\ ai' = ai
    /\ IF ~IsListed(model)
       THEN /\ consoleOut' = <<InvalidModelLine>> \o ListingLines
            /\ cli' = [NoCli EXCEPT !.pc = "exited", !.command = "set-model", !.runs = cli.runs,
                                    !.model = model, !.insecure = insecure,
                                    !.exitCode = 1]
            /\ DEFAULT_CONFIG' = DefaultSelectedModel
            /\ UNCHANGED <<call, prev, started, files, dirExists, configFile>>
       ELSE /\ DEFAULT_CONFIG' = IF LoadsDefaultObject THEN model ELSE DefaultSelectedModel
            /\ configFile' = saveConfig(model, write)
            /\ consoleOut' = LoadWarning \o SaveError(write)
                                \o <<ModelSetLine, CheckingLine>>
            /\ cli' = [NoCli EXCEPT !.pc = "running", !.command = "set-model", !.runs = cli.runs,
                                    !.model = model, !.insecure = insecure]
            /\ started' = started + 1
            /\ prev' = IF call[1].pc = "idle" THEN prev ELSE Outcome(call[1])
            /\ call' = [call EXCEPT ![1] = [IdleCall EXCEPT !.pc = "EnsureDir",
                                                           !.modelKey = model,
                                                           !.skipSSLVerification = insecure]]
            /\ UNCHANGED <<files, dirExists>>

\* await ensureModelExists(...) returned: console.log('Model is ready to use!')
\* and the action ends
SetModelReady ==
    /\ cli.pc = "running" /\ cli.command = "set-model"
    /\ call[1].pc = "Ready"
    /\ consoleOut' = consoleOut \o <<ReadyLine>>
    /\ cli' = [cli EXCEPT !.pc = "exited", !.exitCode = 0]
    /\ UNCHANGED <<call, prev, started, files, dirExists, configFile, DEFAULT_CONFIG, git, ai>>

\* set-model whose catch block logs the failure and does not exit
SetModelFailed_NoExit ==
    /\ cli.pc = "running" /\ cli.command = "set-model"
    /\ call[1].pc = "Failed"
    /\ consoleOut' = consoleOut \o <<FailedLine>>
    /\ cli' = [cli EXCEPT !.pc = "exited", !.exitCode = 0]
    /\ UNCHANGED <<call, prev, started, files, dirExists, configFile, DEFAULT_CONFIG, git, ai>>

\* await ensureModelExists(...) threw: the catch block logs the failure and
\* calls process.exit(1)
SetModelFailed ==
    /\ cli.pc = "running" /\ cli.command = "set-model"
    /\ call[1].pc = "Failed"
    /\ consoleOut' = consoleOut \o <<FailedLine>>
    /\ cli' = [cli EXCEPT !.pc = "exited", !.exitCode = 1]
    /\ UNCHANGED <<call, prev, started, files, dirExists, configFile, DEFAULT_CONFIG, git, ai>>

\* the promise the action awaits cannot settle: the error that caused it is
\* an uncaught exception or an unhandled rejection, which ends the process
\* with status 1 before the action writes another line
ProcessCrashes ==
    /\ cli.pc = "running"
    /\ call[1].pc = "Hung"
    /\ cli' = [cli EXCEPT !.pc = "exited", !.exitCode = 1]
    /\ UNCHANGED <<call, prev, started, files, dirExists, configFile, DEFAULT_CONFIG,
                   consoleOut, git, ai>>

NextCli ==
    \/ \E m \in ModelInputs, insecure \in BOOLEAN, w \in WriteOutcomes :
            SetModel(m, insecure, w)
    \/ SetModelReady
    \/ SetModelFailed
    \/ ProcessCrashes
    \/ \E c \in Calls : EnsureDir(c)
    \/ \E c \in Calls : Resolve(c)
    \/ \E c \in Calls : Check(c)
    \/ \E c \in Calls : OpenWriter(c)
    \/ \E c \in Calls, h \in Headers : Respond(c, h)
    \/ \E c \in Calls : RequestFails(c)
    \/ \E c \in Calls : Chunk(c)
    \/ \E c \in Calls : WriterError(c)
    \/ \E c \in Calls : StreamError(c)
    \/ \E c \in Calls : Finish(c)

SpecCli == Init /\ [][NextCli]_vars

\* C28: a set-model run with an id that is not registered ends at once with
\* status 1 and the invalid-model message; it writes no configuration file,
\* creates no directory, touches no model file and starts no invocation of
\* ensureModelExists.
C28_UnknownIdNoIO ==
    [][cli.pc # "running" /\ cli' # cli /\ ~IsRegistered(cli'.model)
          => /\ cli'.pc = "exited" /\ cli'.exitCode = 1
             /\ consoleOut'[1] = InvalidModelLine
             /\ UNCHANGED <<configFile, files, dirExists, call, prev, started>>]_vars

\* an unregistered id has been refused after an earlier run had selected
\* 'qwen2.5', and the configuration file still selects it
C28_Witness ==
    /\ cli.pc = "exited" /\ cli.model = "unknown" /\ cli.exitCode = 1
    /\ configFile = JsonConfig("qwen2.5")
    /\ Wrote(InvalidModelLine)

\* C29: a set-model run with a registered id invokes ensureModelExists with
\* exactly that id and the run's insecure flag; 'Model is ready to use!' is
\* written only once that invocation has returned; when the invocation
\* fails the run writes the failure line, not the readiness line, and exits
\* with status 1.
C29_SetModelEnsuresAndReports ==
    /\ cli.command = "set-model" /\ cli.pc = "running"
           => /\ call[1].pc # "idle"
              /\ call[1].modelKey = cli.model
              /\ call[1].skipSSLVerification = cli.insecure
              /\ call[1].selectedModel \in {NoKey, cli.model}
    /\ Wrote(ReadyLine)
           => /\ call[1].pc = "Ready"
              /\ call[1].selectedModel = cli.model
              /\ call[1].skipSSLVerification = cli.insecure
              /\ cli.pc = "exited" /\ cli.exitCode = 0
    /\ cli.pc = "exited" /\ IsRegistered(cli.model) /\ call[1].pc = "Failed"
           => /\ cli.exitCode = 1
              /\ Wrote(FailedLine)
              /\ ~Wrote(ReadyLine)

\* a run with --insecure has ended with status 1 after its download failed
C29_Witness ==
    /\ cli.pc = "exited" /\ cli.model = "qwen2.5" /\ cli.insecure
    /\ call[1].pc = "Failed" /\ call[1].error = "Network error"
    /\ call[1].skipSSLVerification
    /\ cli.exitCode = 1 /\ Wrote(FailedLine)

\* ------------------------------------------------------------ lib/git.js
\* the files whose changes can be staged; a diff is told by the files whose
\* changes it shows
GitFiles == {"src/index.js", "README.md", "package-lock.json", "yarn.lock"}

NotARepository == "Not a git repository"

\* the arguments of git.diff with no pathspec: the whole index is compared
DiffArgs_CachedOnly == [cached |-> TRUE, exclude |-> {}]

\* ['--cached', ':(exclude)package-lock.json', ':(exclude)yarn.lock',
\*  ':(exclude)pnpm-lock.yaml']
DiffArgs ==
    [cached |-> TRUE, exclude |-> {"package-lock.json", "yarn.lock", "pnpm-lock.yaml"}]

\* git diff --cached <pathspecs>: the staged changes of the files no
\* ':(exclude)' pathspec names
GitDiff(args) == {f \in git.staged : f \notin args.exclude}

\* git diff --cached: everything that is staged
StagedDiff == git.staged

\* getStagedDiff is awaiting git
GitBusy == git.pc \in {"checkIsRepo", "diff"}

\* between invocations the user stages or unstages changes in a repository
StageChanges(s) ==
    /\ ~GitBusy
    /\ ~(git.isRepo /\ git.staged = s)
    /\ git' = [git EXCEPT !.isRepo = TRUE, !.staged = s]
    /\ UNCHANGED <<call, prev, started, files, dirExists, configFile, DEFAULT_CONFIG,
                   consoleOut, cli, ai>>

\* between invocations the working directory becomes one outside any repository
LeaveRepository ==
    /\ ~GitBusy
    /\ git.isRepo
    /\ git' = [git EXCEPT !.isRepo = FALSE, !.staged = {}]
    /\ UNCHANGED <<call, prev, started, files, dirExists, configFile, DEFAULT_CONFIG,
                   consoleOut, cli, ai>>

\* getStagedDiff() is invoked
GetStagedDiff ==
    /\ ~GitBusy
    /\ git' = [git EXCEPT !.pc = "checkIsRepo", !.commands = <<>>,
                          !.result = NoDiff, !.error = NoError]
    /\ UNCHANGED <<call, prev, started, files, dirExists, configFile, DEFAULT_CONFIG,
                   consoleOut, cli, ai>>

\* const isRepo = await git.checkIsRepo(); if (!isRepo) throw new Error(...)
CheckIsRepo ==
    /\ git.pc = "checkIsRepo"
    /\ git' = IF git.isRepo
              THEN [git EXCEPT !.pc = "diff", !.commands = Append(@, "rev-parse")]
              ELSE [git EXCEPT !.pc = "failed", !.commands = Append(@, "rev-parse"),
                               !.error = NotARepository]
    /\ UNCHANGED <<call, prev, started, files, dirExists, configFile, DEFAULT_CONFIG,
                   consoleOut, cli, ai>>

\* const diff = await git.diff([...]); return diff
Diff ==
    /\ git.pc = "diff"
    /\ git' = [git EXCEPT !.pc = "returned", !.commands = Append(@, "diff"),
                          !.result = GitDiff(DiffArgs)]
    /\ UNCHANGED <<call, prev, started, files, dirExists, configFile, DEFAULT_CONFIG,
                   consoleOut, cli, ai>>

NextGit ==
    \/ \E s \in SUBSET GitFiles : StageChanges(s)
    \/ LeaveRepository
    \/ GetStagedDiff
    \/ CheckIsRepo
    \/ Diff

SpecGit == Init /\ [][NextGit]_vars

\* the diff command has been run by the latest invocation
RanDiff(g) == \E i \in 1..Len(g.commands) : g.commands[i] = "diff"

Bodies == UNION {[1..n -> Tokens] : n \in 0..MaxResponse}
Responses == Bodies \cup {<<WS>> \o b \o <<WS>> : b \in Bodies}

\* generateCommitMessage(modelPath, diff, onProgress) is invoked: the model is
\* loaded, the prompt is built from the diff and sent
GenerateCommitMessage(path, diff) ==
    /\ ai.pc # "prompting"
    /\ cli.pc # "running"
    /\ ai' = [NoAi EXCEPT !.pc = "prompting", !.modelPath = path, !.diff = diff]
    /\ UNCHANGED <<call, prev, started, files, dirExists, configFile, DEFAULT_CONFIG,
                   consoleOut, cli, git>>

\* getLlama, loadModel, createContext or session.prompt rejects: nothing in
\* generateCommitMessage catches it
GenerationFails ==
    /\ ai.pc = "prompting"
    /\ ai' = [ai EXCEPT !.pc = "failed"]
    /\ UNCHANGED <<call, prev, started, files, dirExists, configFile, DEFAULT_CONFIG,
                   consoleOut, cli, git>>

\* session.prompt resolves with a response; lines 186-194 turn it into the
\* value returned
SessionResponds(response) ==
    /\ ai.pc = "prompting"
    /\ ai' = [ai EXCEPT !.pc = "returned", !.response = response,
                        !.result = ParseResponse(response),
                        !.warned = ParseWarns(response)]
    /\ UNCHANGED <<call, prev, started, files, dirExists, configFile, DEFAULT_CONFIG,
                   consoleOut, cli, git>>

NextAi ==
    \/ GenerateCommitMessage(modelPath(DefaultSelectedModel), {"src/index.js"})
    \/ GenerationFails
    \/ ai.pc = "prompting" /\ \E r \in Responses : SessionResponds(r)

SpecAi == Init /\ [][NextAi]_vars

\* a text with its white space left out
Squeeze(t) == SelectSeq(t, LAMBDA x : x # WS)

\* the JSON texts, white space left out, of the values nested at most d deep
RECURSIVE JsonTexts(_)
JsonTexts(d) ==
    IF d = 0
    THEN {<<"null">>, <<"{", "}">>} \cup {<<s>> : s \in StringLiterals}
    ELSE JsonTexts(d - 1)
            \cup {<<"{", k, ":">> \o v \o <<"}">> : k \in StringLiterals, v \in JsonTexts(d - 1)}

\* the JSON texts of a non-empty commit_message: a string other than "", or
\* an object
NonEmptyTexts == JsonTexts(MaxResponse \div 4 + 1) \ {<<"null">>, <<EmptyLiteral>>}

Pad(n) == [i \in 1..n |-> WS]

\* C31: when the response is the JSON text of an object whose commit_message
\* is not empty, generateCommitMessage returns that commit_message; in every
\* other case, a response that is not JSON included, it returns the response
\* with the white space at its ends removed.
C31_ReturnsFieldOrTrimmedResponse ==
    ai.pc = "returned" =>
        IF \E v \in NonEmptyTexts :
               Squeeze(ai.response) = <<"{", CommitMessageLiteral, ":">> \o v \o <<"}">>
        THEN /\ ai.result.type \in {"string", "object"}
             /\ \A s \in StringLiterals :
                   Squeeze(ai.response) = <<"{", CommitMessageLiteral, ":", s, "}">>
                       => ai.result = StringValue(LiteralContent(s))
             /\ ~ai.warned
        ELSE /\ ai.result.type = "text"
             /\ LET t == ai.result.tokens
                IN  /\ t = <<>> \/ (t[1] # WS /\ t[Len(t)] # WS)
                    /\ \E i, j \in 0..Len(ai.response) :
                          ai.response = Pad(i) \o t \o Pad(j)

\* a response with white space around the JSON text has given its commit_message
C31_Witness ==
    /\ ai.pc = "returned"
    /\ ai.response = <<WS, "{", CommitMessageLiteral, ":", TextLiteral, "}", WS>>
    /\ ai.result = StringValue("feat: x")

\* ------------------------------------------------- the default CLI action
\* the lines the default action writes to the console
UsingModelLine == "Using model:"
NoStagedLine == "No staged changes found. Use \"git add\" to stage files first."
ProposedLine == "Proposed Commit Message:"
CommittedLine == "Committed successfully!"
RegeneratingLine == "Regenerating commit message..."
EmptyMessageLine == "Commit cancelled (empty message)."
CancelledLine == "Operation cancelled."
NotRepoLine == "Error: Current directory is not a git repository."
ErrorLine == "An error occurred:"

\* the text git prints for a diff: nothing when it shows no file, otherwise
\* the sections of the files, each ended by a line break
DiffText(d) == IF d = {} THEN <<>> ELSE <<"diff --git", WS>>

\* !diff || diff.trim().length === 0
IsBlankDiff(d) == Len(DiffText(d)) = 0 \/ Len(Trim(DiffText(d))) = 0

\* the responses of the model and the texts the user leaves in the editor
CliResponses ==
    {<<"{", CommitMessageLiteral, ":", TextLiteral, "}">>, <<WS, TextLiteral>>, <<"{", "}">>}
EditedMessages == {<<>>, <<WS>>, <<"fix: y">>, <<WS, "fix: y", WS>>}

\* the sets of files the user stages around a run of the default action
CommitStaged == {{}, {"src/index.js"}, {"package-lock.json"},
                 {"src/index.js", "README.md"}}

InDefault(stage) == cli.pc = "running" /\ cli.command = "default" /\ cli.stage = stage

\* the run ends: the action returns and the process exits with status 0, or
\* the catch block calls process.exit(1)
Ended(code, loop) ==
    [cli EXCEPT !.pc = "exited", !.stage = "done", !.exitCode = code, !.loop = loop]

\* the review loop is left by an exception when it was running
Aborted == IF cli.loop = "running" THEN "aborted" ELSE cli.loop

\* `ai-commit` is run in a new process: the banner and the selected model are
\* written (lines 20-25), then ensureModelExists() is invoked without argument
DefaultAction ==
    /\ cli.pc # "running"
    /\ \A c \in Calls : ~Running(c)
    /\ ~GitBusy
    /\ ai.pc # "prompting"
    /\ started < MaxCalls
    /\ cli.runs < MaxRuns
    /\ DEFAULT_CONFIG' = DefaultSelectedModel
    /\ consoleOut' = LoadWarning \o <<UsingModelLine>>
    /\ started' = started + 1
    /\ prev' = IF call[1].pc = "idle" THEN prev ELSE Outcome(call[1])
    /\ call' = [call EXCEPT ![1] = [IdleCall EXCEPT !.pc = "EnsureDir"]]
    /\ cli' = [NoCli EXCEPT !.pc = "running", !.command = "default", !.stage = "ensure",
                            !.runs = cli.runs + 1]
    /\ git' = [git EXCEPT !.pc = "idle", !.commands = <<>>, !.result = NoDiff,
                          !.error = NoError]
    /\ ai' = NoAi
    /\ UNCHANGED <<files, dirExists, configFile>>

\* await ensureModelExists() threw: catch block, line 146, process.exit(1)
EnsureFailed ==
    /\ InDefault("ensure")
    /\ call[1].pc = "Failed"
    /\ consoleOut' = consoleOut \o <<ErrorLine>>
    /\ cli' = Ended(1, Aborted)
    /\ UNCHANGED <<call, prev, started, files, dirExists, configFile, DEFAULT_CONFIG, git, ai>>

\* the default action reading the diff whether ensureModelExists returned or threw
ReadDiff_AnyOutcome ==
    /\ InDefault("ensure")
    /\ call[1].pc \in {"Ready", "Failed"}
    /\ cli' = [cli EXCEPT !.stage = "diff", !.modelPath = call[1].result, !.reads = @ + 1]
    /\ git' = [git EXCEPT !.pc = "checkIsRepo", !.commands = <<>>,
                          !.result = NoDiff, !.error = NoError]
    /\ UNCHANGED <<call, prev, started, files, dirExists, configFile, DEFAULT_CONFIG,
                   consoleOut, ai>>

\* const modelPath = await ensureModelExists() returned; getStagedDiff() is invoked
ReadDiff ==
    /\ InDefault("ensure")
    /\ call[1].pc = "Ready"
    /\ cli' = [cli EXCEPT !.stage = "diff", !.modelPath = call[1].result, !.reads = @ + 1]
    /\ git' = [git EXCEPT !.pc = "checkIsRepo", !.commands = <<>>,
                          !.result = NoDiff, !.error = NoError]
    /\ UNCHANGED <<call, prev, started, files, dirExists, configFile, DEFAULT_CONFIG,
                   consoleOut, ai>>

\* await getStagedDiff() threw 'Not a git repository': catch block, line 144
NotRepository ==
    /\ InDefault("diff")
    /\ git.pc = "failed"
    /\ consoleOut' = consoleOut \o <<NotRepoLine>>
    /\ cli' = Ended(1, Aborted)
    /\ UNCHANGED <<call, prev, started, files, dirExists, configFile, DEFAULT_CONFIG, git, ai>>

\* if (!diff || diff.trim().length === 0) { console.log(...); return; }
NoStagedChanges ==
    /\ InDefault("diff")
    /\ git.pc = "returned"
    /\ IsBlankDiff(git.result)
    /\ consoleOut' = consoleOut \o <<NoStagedLine>>
    /\ cli' = [Ended(0, cli.loop) EXCEPT !.diff = git.result]
    /\ UNCHANGED <<call, prev, started, files, dirExists, configFile, DEFAULT_CONFIG, git, ai>>

\* the default action without the test for an empty diff
Generate_NoBlankCheck ==
    /\ InDefault("diff")
    /\ git.pc = "returned"
    /\ cli' = [cli EXCEPT !.stage = "generate", !.diff = git.result]
    /\ ai' = [NoAi EXCEPT !.pc = "prompting", !.modelPath = cli.modelPath,
                          !.diff = git.result]
    /\ UNCHANGED <<call, prev, started, files, dirExists, configFile, DEFAULT_CONFIG,
                   consoleOut, git>>

\* generateCommitMessage(modelPath, diff, ...) is invoked, line 57
Generate ==
    /\ InDefault("diff")
    /\ git.pc = "returned"
    /\ ~IsBlankDiff(git.result)
    /\ cli' = [cli EXCEPT !.stage = "generate", !.diff = git.result]
    /\ ai' = [NoAi EXCEPT !.pc = "prompting", !.modelPath = cli.modelPath,
                          !.diff = git.result]
    /\ UNCHANGED <<call, prev, started, files, dirExists, configFile, DEFAULT_CONFIG,
                   consoleOut, git>>

\* await generateCommitMessage(...) threw, at line 57 or at line 108
GenerationFailed ==
    /\ InDefault("generate") \/ InDefault("regenerate")
    /\ ai.pc = "failed"
    /\ consoleOut' = consoleOut \o <<ErrorLine>>
    /\ cli' = Ended(1, Aborted)
    /\ UNCHANGED <<call, prev, started, files, dirExists, configFile, DEFAULT_CONFIG, git, ai>>

\* currentMessage is the message generated (line 69 or line 108); the loop
\* shows it and the menu (lines 73-90)
Propose ==
    /\ InDefault("generate") \/ InDefault("regenerate")
    /\ ai.pc = "returned"
    /\ consoleOut' = consoleOut \o <<ProposedLine>>
    /\ cli' = [cli EXCEPT !.stage = "menu", !.currentMessage = ai.result,
                          !.loop = "running", !.prompts = @ + 1]
    /\ UNCHANGED <<call, prev, started, files, dirExists, configFile, DEFAULT_CONFIG, git, ai>>

\* action === 'commit': commitChanges(currentMessage) is invoked
ChooseCommit ==
    /\ InDefault("menu")
    /\ cli' = [cli EXCEPT !.stage = "commit", !.choice = "commit",
                          !.commits = Append(@, cli.currentMessage)]
    /\ UNCHANGED <<call, prev, started, files, dirExists, configFile, DEFAULT_CONFIG,
                   consoleOut, git, ai>>

\* 'regenerate' generating from the changes staged now, not from diff
ChooseRegenerate_CurrentStaged ==
    /\ InDefault("menu")
    /\ cli.regenerations < MaxRegenerate
    /\ consoleOut' = consoleOut \o <<RegeneratingLine>>
    /\ cli' = [cli EXCEPT !.stage = "regenerate", !.choice = "regenerate",
                          !.regenerations = @ + 1]
    /\ ai' = [NoAi EXCEPT !.pc = "prompting", !.modelPath = cli.modelPath,
                          !.diff = GitDiff(DiffArgs)]
    /\ UNCHANGED <<call, prev, started, files, dirExists, configFile, DEFAULT_CONFIG, git>>

\* action === 'regenerate': generateCommitMessage(modelPath, diff, ...) is
\* invoked again, line 108
ChooseRegenerate ==
    /\ InDefault("menu")
    /\ cli.regenerations < MaxRegenerate
    /\ consoleOut' = consoleOut \o <<RegeneratingLine>>
    /\ cli' = [cli EXCEPT !.stage = "regenerate", !.choice = "regenerate",
                          !.regenerations = @ + 1]
    /\ ai' = [NoAi EXCEPT !.pc = "prompting", !.modelPath = cli.modelPath,
                          !.diff = cli.diff]
    /\ UNCHANGED <<call, prev, started, files, dirExists, configFile, DEFAULT_CONFIG, git>>

\* action === 'edit': the editor is opened on currentMessage
ChooseEdit ==
    /\ InDefault("menu")
    /\ cli' = [cli EXCEPT !.stage = "edit", !.choice = "edit"]
    /\ UNCHANGED <<call, prev, started, files, dirExists, configFile, DEFAULT_CONFIG,
                   consoleOut, git, ai>>

\* the editor commits the text as the user left it, without trim()
Edited_Untrimmed(newMessage) ==
    /\ InDefault("edit")
    /\ IF Trim(newMessage) # <<>>
       THEN /\ cli' = [cli EXCEPT !.stage = "commit", !.edited = newMessage,
                                  !.commits = Append(@, TextValue(newMessage))]
            /\ consoleOut' = consoleOut
       ELSE /\ cli' = [Ended(0, "ended") EXCEPT !.edited = newMessage]
            /\ consoleOut' = consoleOut \o <<EmptyMessageLine>>
    /\ UNCHANGED <<call, prev, started, files, dirExists, configFile, DEFAULT_CONFIG, git, ai>>

\* the editor returns newMessage: if (newMessage && newMessage.trim())
\* commitChanges(newMessage.trim()) is invoked, otherwise the loop ends
Edited(newMessage) ==
    /\ InDefault("edit")
    /\ IF Trim(newMessage) # <<>>
       THEN /\ cli' = [cli EXCEPT !.stage = "commit", !.edited = newMessage,
                                  !.commits = Append(@, TextValue(Trim(newMessage)))]
            /\ consoleOut' = consoleOut
       ELSE /\ cli' = [Ended(0, "ended") EXCEPT !.edited = newMessage]
            /\ consoleOut' = consoleOut \o <<EmptyMessageLine>>
    /\ UNCHANGED <<call, prev, started, files, dirExists, configFile, DEFAULT_CONFIG, git, ai>>

\* the else branch, for 'cancel': the loop ends
ChooseCancel ==
    /\ InDefault("menu")
    /\ consoleOut' = consoleOut \o <<CancelledLine>>
    /\ cli' = [Ended(0, "ended") EXCEPT !.choice = "cancel"]
    /\ UNCHANGED <<call, prev, started, files, dirExists, configFile, DEFAULT_CONFIG, git, ai>>

\* await commitChanges(...) returned: git commit has recorded what was staged
Committed ==
    /\ InDefault("commit")
    /\ git.isRepo
    /\ consoleOut' = consoleOut \o <<CommittedLine>>
    /\ cli' = Ended(0, "ended")
    /\ git' = [git EXCEPT !.staged = {}, !.commands = Append(@, "commit")]
    /\ UNCHANGED <<call, prev, started, files, dirExists, configFile, DEFAULT_CONFIG, ai>>

\* await commitChanges(...) threw: git commit failed
CommitFails ==
    /\ InDefault("commit")
    /\ consoleOut' = consoleOut \o <<ErrorLine>>
    /\ cli' = Ended(1, Aborted)
    /\ git' = [git EXCEPT !.commands = Append(@, "commit")]
    /\ UNCHANGED <<call, prev, started, files, dirExists, configFile, DEFAULT_CONFIG, ai>>

NextCommit ==
    \/ DefaultAction
    \/ EnsureFailed
    \/ ReadDiff
    \/ NotRepository
    \/ NoStagedChanges
    \/ Generate
    \/ GenerationFailed
    \/ Propose
    \/ ChooseCommit
    \/ ChooseRegenerate
    \/ ChooseEdit
    \/ ChooseCancel
    \/ \E m \in EditedMessages : Edited(m)
    \/ Committed
    \/ CommitFails
    \/ ProcessCrashes
    \/ CheckIsRepo
    \/ Diff
    \/ GenerationFails
    \/ ai.pc = "prompting" /\ \E r \in CliResponses : SessionResponds(r)
    \/ \E s \in CommitStaged : StageChanges(s)
    \/ LeaveRepository
    \/ cli.pc = "none" /\ \E m \in ModelInputs, w \in WriteOutcomes : setSelectedModel(m, w)
    \/ \E c \in Calls : EnsureDir(c)
    \/ \E c \in Calls : Resolve(c)
    \/ \E c \in Calls : Check(c)
    \/ \E c \in Calls : OpenWriter(c)
    \/ \E c \in Calls, h \in Headers : Respond(c, h)
    \/ \E c \in Calls : RequestFails(c)
    \/ \E c \in Calls : Chunk(c)
    \/ \E c \in Calls : WriterError(c)
    \/ \E c \in Calls : StreamError(c)
    \/ \E c \in Calls : Finish(c)

SpecCommit == Init /\ [][NextCommit]_vars

\* C32: in the default action generateCommitMessage is invoked only after
\* ensureModelExists has returned, and every invocation of the run, the
\* regenerations included, receives the path that call returned; as long as
\* ensureModelExists has not returned (and when it has failed) no diff has
\* been read, no generation has been started and no commit has been made.
C32_GenerationAfterEnsure ==
    cli.command = "default" =>
        /\ ai.pc # "idle" =>
                /\ call[1].pc = "Ready"
                /\ call[1].result # NoPath
                /\ ai.modelPath = call[1].result
        /\ call[1].pc # "Ready" =>
                /\ cli.reads = 0 /\ git.pc = "idle" /\ git.commands = <<>>
                /\ ai = NoAi
                /\ cli.commits = <<>>

\* a regeneration is running with the path ensureModelExists returned
C32_Witness ==
    /\ cli.command = "default" /\ cli.regenerations = 1
    /\ ai.pc = "prompting"
    /\ call[1].pc = "Ready" /\ ai.modelPath = call[1].result

\* a text of white space only
Blank(t) == \A i \in 1..Len(t) : t[i] = WS

\* C33: in one run of the default action commitChanges is invoked at most
\* once, and only because the user chose 'commit', with the proposed message,
\* or 'edit' and left a text that is not blank, with that text less the white
\* space at its ends; 'cancel', and 'edit' with a blank text, end the run
\* with no commit.
C33_AtMostOneCommit ==
    cli.command = "default" =>
        /\ Len(cli.commits) <= 1
        /\ cli.commits # <<>> =>
                \/ cli.choice = "commit" /\ cli.commits[1] = cli.currentMessage
                \/ /\ cli.choice = "edit"
                   /\ ~Blank(cli.edited)
                   /\ cli.commits[1].type = "text"
                   /\ LET t == cli.commits[1].tokens
                      IN  /\ t[1] # WS /\ t[Len(t)] # WS
                          /\ \E i, j \in 0..Len(cli.edited) :
                                cli.edited = Pad(i) \o t \o Pad(j)
        /\ cli.choice = "cancel" =>
                cli.commits = <<>> /\ cli.pc = "exited" /\ cli.exitCode = 0
        /\ cli.choice = "edit" /\ cli.stage # "edit" /\ Blank(cli.edited) =>
                cli.commits = <<>> /\ cli.pc = "exited" /\ cli.exitCode = 0

\* the edited text was committed without the white space around it
C33_Witness ==
    /\ cli.command = "default" /\ cli.choice = "edit"
    /\ cli.edited = <<WS, "fix: y", WS>>
    /\ cli.commits = <<TextValue(<<"fix: y">>)>>
    /\ cli.pc = "exited" /\ cli.exitCode = 0

\* C34: the review loop ends only once the user has chosen 'commit', 'edit'
\* or 'cancel', and after one of them the menu is not shown again; after
\* 'regenerate' the message proposed is the one newly generated, it is
\* generated from the diff read at the start of the run (the staged changes
\* are read once), and the menu is shown again.
C34_LoopEndsOnChoice ==
    /\ [](cli.command = "default" =>
            /\ cli.loop = "ended" => cli.choice \in {"commit", "edit", "cancel"}
            /\ cli.choice \in {"commit", "edit", "cancel"} =>
                    cli.stage \in {"commit", "edit", "done"}
            /\ cli.choice = "regenerate" /\ cli.pc = "running" =>
                    cli.stage \in {"regenerate", "menu"} /\ cli.loop = "running"
            /\ cli.stage = "menu" =>
                    ai.pc = "returned" /\ cli.currentMessage = ai.result
            /\ cli.reads <= 1
            /\ ai.pc # "idle" => cli.reads = 1 /\ ai.diff = cli.diff)
    /\ [][((cli.command = "default" /\ cli.prompts >= 1 /\ cli'.prompts > cli.prompts) =>
                (/\ cli.choice = "regenerate"
                 /\ cli'.prompts = cli.regenerations + 1
                 /\ cli'.currentMessage = ai.result
                 /\ cli'.diff = cli.diff))
           /\ ((cli.command = "default" /\ cli.stage = "regenerate" /\ ai.pc = "returned"
                    /\ cli' # cli) =>
                cli'.stage = "menu")]_vars

\* the menu is shown a second time, with a message generated from the diff
\* of the start of the run although other changes are staged by now
C34_Witness ==
    /\ cli.command = "default" /\ cli.stage = "menu"
    /\ cli.regenerations = 1 /\ cli.prompts = 2
    /\ ai.diff = cli.diff /\ cli.currentMessage = ai.result
    /\ git.isRepo /\ GitDiff(DiffArgs) # cli.diff

NextSelect ==
    \/ \E m \in ModelInputs, insecure \in BOOLEAN, w \in WriteOutcomes :
            SetModel(m, insecure, w)
    \/ SetModelReady
    \/ SetModelFailed
    \/ DefaultAction
    \/ EnsureFailed
    \/ ReadDiff
    \/ CheckIsRepo
    \/ NotRepository
    \/ ProcessCrashes
    \/ \E c \in Calls : EnsureDir(c)
    \/ \E c \in Calls : Resolve(c)
    \/ \E c \in Calls : Check(c)
    \/ \E c \in Calls : OpenWriter(c)
    \/ \E c \in Calls, h \in Headers : Respond(c, h)
    \/ \E c \in Calls : RequestFails(c)
    \/ \E c \in Calls : Chunk(c)
    \/ \E c \in Calls : WriterError(c)
    \/ \E c \in Calls : StreamError(c)
    \/ \E c \in Calls : Finish(c)

SpecSelect == Init /\ [][NextSelect]_vars

\* C36: starting without a configuration file, after any runs of set-model
\* the selectedModel the file holds, when it holds one, is a key of the
\* registry, and no ensureModelExists() without argument fails with
\* 'Unknown model'.
C36_PersistedSelectionRegistered ==
    /\ configFile.exists /\ configFile.parsable =>
            configFile.selectedModel \in DOMAIN MODELS
    /\ \A c \in Calls :
            call[c].modelKey = NoKey /\ call[c].pc = "Failed" =>
                call[c].error # "Unknown model"
    /\ prev.error # "Unknown model"

\* set-model has persisted qwen2.5 and an ensureModelExists() without
\* argument of the default action has resolved it
C36_Witness ==
    /\ configFile = JsonConfig("qwen2.5")
    /\ cli.command = "default"
    /\ call[1].modelKey = NoKey /\ call[1].selectedModel = "qwen2.5"
    /\ call[1].pc \in {"Ready", "Failed"}

C38_EnsureDirIdempotent ==
    /\ [][\A c \in Calls :
            call[c].pc = "EnsureDir" /\ call'[c].pc # "EnsureDir" =>
                /\ dirExists'
                /\ ("mkdirSync" \in call'[c].io) <=> ~dirExists
                /\ call'[c].pc = "Resolving" /\ call'[c].error = NoError
                /\ files' = files]_vars
    /\ [](\A c \in Calls : call[c].pc \notin {"idle", "EnsureDir"} => dirExists)

\* a second invocation found the directory the first one had created and
\* returned without calling mkdirSync
C38_Witness ==
    /\ started = 2 /\ prev.pc # "idle"
    /\ dirExists
    /\ call[1].pc = "Ready"
    /\ "existsSync(dir)" \in call[1].io /\ "mkdirSync" \notin call[1].io

====
